---- MODULE Spec2Model ----
(***************************************************************************)
(* State-machine model of main_resilient.py: the handlers registered on    *)
(* the dispatcher, the three tables (vacancies, toggles, blacklist) and    *)
(* the notification channels.                                              *)
(*                                                                         *)
(* Texts (message texts, callback tokens, titles) are sequences of chunks: *)
(* a chunk is a separator character (" ", "|", "_") or a maximal run of    *)
(* other characters ("career", "/toggle", "7").  str.split, str.strip,     *)
(* str.startswith and int() are computed on that representation.           *)
(*                                                                         *)
(* One step of the model is one update handled to completion.  The calls a *)
(* handler makes (session open/close, store reads and commits, transport   *)
(* calls, SMS and email sinks) are recorded in order in `trace`; an        *)
(* exception that leaves the handler is recorded in `raised`.              *)
(***************************************************************************)
EXTENDS Integers, Sequences, FiniteSets, TLC

VARIABLES
    vacancies,   \* table vacancies: sequence of rows in rowid order
    toggles,     \* table toggles: function name -> enabled, over the names that have a row
    blacklist,   \* table blacklist: set of user_id
    config,      \* which of the SMS / SMTP credentials are set in the environment
    ev,          \* the update handled by the last step
    handler,     \* the handler the dispatcher chose for it ("none": no filter matched)
    trace,       \* the calls that handler made, in order
    raised,      \* the exception that left the handler ("none": returned normally)
    pre,         \* the three tables as they were before the last step
    catalog,     \* the catalog page on the applicant's screen (navigation specification)
    tasks        \* the admin handlers in flight (concurrency specification)

vars == <<vacancies, toggles, blacklist, config, ev, handler, trace, raised, pre,
          catalog, tasks>>

----------------------------------------------------------------------------
(* Bounds and program constants *)

MaxVac == 2

\* catalog specification: rows already in the table at the start, pages asked for
MaxRows == 11

MaxPage == 3

ADMIN_ID == 0

per_page == 5

Users == {ADMIN_ID, 1}

IntRange == -1 .. 9

Channels == {"chat", "sms", "email"}

----------------------------------------------------------------------------
(* Text helpers *)

\* s.startswith(prefix)
StartsWith(s, prefix) ==
    /\ Len(s) >= Len(prefix)
    /\ SubSeq(s, 1, Len(prefix)) = prefix

\* index of the first chunk equal to sep, 0 when there is none
RECURSIVE FindFrom(_, _, _)
FindFrom(s, sep, i) ==
    IF i > Len(s) THEN 0
    ELSE IF s[i] = sep THEN i
    ELSE FindFrom(s, sep, i + 1)

\* s.split(sep): the list of fields between the separators
RECURSIVE Split(_, _)
Split(s, sep) ==
    LET i == FindFrom(s, sep, 1)
    IN  IF i = 0 THEN <<s>>
        ELSE <<SubSeq(s, 1, i - 1)>> \o Split(SubSeq(s, i + 1, Len(s)), sep)

\* s.split(sep, 1): at most one cut
SplitOnce(s, sep) ==
    LET i == FindFrom(s, sep, 1)
    IN  IF i = 0 THEN <<s>>
        ELSE <<SubSeq(s, 1, i - 1), SubSeq(s, i + 1, Len(s))>>

\* s.strip()
RECURSIVE Strip(_)
Strip(s) ==
    IF s = <<>> THEN s
    ELSE IF Head(s) = " " THEN Strip(Tail(s))
    ELSE IF s[Len(s)] = " " THEN Strip(SubSeq(s, 1, Len(s) - 1))
    ELSE s

\* int(s) succeeds: after stripping blanks, s is one numeral
IsInt(s) ==
    LET t == Strip(s)
    IN  /\ Len(t) = 1
        /\ \E n \in IntRange : ToString(n) = t[1]

\* int(s)
IntOf(s) == CHOOSE n \in IntRange : ToString(n) = Strip(s)[1]

\* f"{n}"
Str(n) == ToString(n)

----------------------------------------------------------------------------
(* Trace entries and handler results *)

\* one call made by a handler: what was called, which screen or table it
\* carried, the text lines and button tokens of a render, and whether the call
\* succeeded
Call(call, screen, text, buttons, ok) ==
    [call |-> call, screen |-> screen, text |-> text, buttons |-> buttons, ok |-> ok]

SessionOpen == Call("session_open", "", <<>>, <<>>, TRUE)

SessionClose == Call("session_close", "", <<>>, <<>>, TRUE)

Query(table) == Call("query", table, <<>>, <<>>, TRUE)

Commit(table) == Call("commit", table, <<>>, <<>>, TRUE)

\* a commit refused by the primary-key constraint
CommitRefused(table) == Call("commit", table, <<>>, <<>>, FALSE)

\* what a handler did: its calls, the exception that left it, and the tables
\* after it
Result(tr, exc, vs, ts, bl) ==
    [trace |-> tr, raised |-> exc, vacancies |-> vs, toggles |-> ts, blacklist |-> bl]

\* a handler that wrote nothing
ReadOnly(tr, exc) == Result(tr, exc, vacancies, toggles, blacklist)

TransportCalls == {"message.answer", "message.reply", "callback.answer",
                   "edit_text", "bot.send_message"}

SinkCalls == {"send_sms", "send_email"}

----------------------------------------------------------------------------
(* Tokens *)

TokMain == <<"main">>

TokNoop == <<"noop">>

TokAllVacancies == <<"all", "_", "vacancies">>

TokEvt(key) == <<"evt", "_", key>>

TokRespondEvt(key) == <<"respond", "_", "evt", "_", key>>

TokRespondVac(id) == <<"respond", "_", "vac", "_", Str(id)>>

TokVac(id) == <<"vac", "_", Str(id)>>

TokVacPage(page) == <<"vac", "_", "page", "_", Str(page)>>

----------------------------------------------------------------------------
(* Store *)

\* the blacklist query filtering on the administrator's id instead of the caller's
Blacklisted_AdminOnly(uid) == ADMIN_ID \in blacklist

\* db.query(Blacklist).filter_by(user_id=uid).first() is not None
Blacklisted(uid) == uid \in blacklist

\* db.get(Vacancy, vid) is not None
HasVacancy(vid) == \E i \in 1 .. Len(vacancies) : vacancies[i].id = vid

\* db.get(Vacancy, vid)
GetVacancy(vid) == vacancies[CHOOSE i \in 1 .. Len(vacancies) : vacancies[i].id = vid]

\* the id SQLite gives an inserted row of an INTEGER PRIMARY KEY table
RECURSIVE MaxId(_)
MaxId(vs) ==
    IF vs = <<>> THEN 0
    ELSE LET m == MaxId(Tail(vs))
         IN  IF Head(vs).id > m THEN Head(vs).id ELSE m

\* an id that does not advance with the table
NextId_First(vs) == 1

NextId(vs) == MaxId(vs) + 1

\* db.add(Vacancy(...)); db.commit()
AddVacancy(title, desc, city) ==
    Append(vacancies,
           [id |-> NextId(vacancies), title |-> title, description |-> desc, city |-> city])

\* db.query(Vacancy).offset(off).limit(lim).all(); SQLite reads a negative
\* OFFSET as 0
PageRows(off, lim) ==
    LET o == IF off < 0 THEN 0 ELSE off
        last == IF o + lim < Len(vacancies) THEN o + lim ELSE Len(vacancies)
    IN  SubSeq(vacancies, o + 1, last)

\* the toggles table with the row of name set to enabled
SetToggle(name, enabled) ==
    [n \in DOMAIN toggles \cup {name} |-> IF n = name THEN enabled ELSE toggles[n]]

----------------------------------------------------------------------------
(* Keyboards *)

build_main_menu ==
    <<TokEvt("career"), TokEvt("practice"), TokAllVacancies, TokNoop>>

\* (text, markup) of build_event_menu
build_event_menu(key, description) ==
    [text |-> <<description>>, buttons |-> <<TokRespondEvt(key), TokMain>>]

\* the buttons `for v in vacs: builder.button(...)` adds
RECURSIVE VacButtons(_)
VacButtons(vacs) ==
    IF vacs = <<>> THEN <<>>
    ELSE <<TokVac(Head(vacs).id)>> \o VacButtons(Tail(vacs))

\* build_vacancy_list offering "next" up to and including a full last page
build_vacancy_list_NextOnFullPage(page) ==
    LET total == Len(vacancies)
        vacs == PageRows(page * per_page, per_page)
        prev == IF page > 0 THEN <<TokVacPage(page - 1)>> ELSE <<>>
        next == IF (page + 1) * per_page <= total THEN <<TokVacPage(page + 1)>> ELSE <<>>
    IN  [text |-> << <<"vacancy list">> >>,
         buttons |-> VacButtons(vacs) \o prev \o next \o <<TokMain>>]

\* build_vacancy_list offering "previous" on every page
build_vacancy_list_PrevAlways(page) ==
    LET total == Len(vacancies)
        vacs == PageRows(page * per_page, per_page)
        prev == <<TokVacPage(page - 1)>>
        next == IF (page + 1) * per_page < total THEN <<TokVacPage(page + 1)>> ELSE <<>>
    IN  [text |-> << <<"vacancy list">> >>,
         buttons |-> VacButtons(vacs) \o prev \o next \o <<TokMain>>]

\* (text, markup) of build_vacancy_list, after its two queries
build_vacancy_list(page) ==
    LET total == Len(vacancies)
        vacs == PageRows(page * per_page, per_page)
        prev == IF page > 0 THEN <<TokVacPage(page - 1)>> ELSE <<>>
        next == IF (page + 1) * per_page < total THEN <<TokVacPage(page + 1)>> ELSE <<>>
    IN  [text |-> << <<"vacancy list">> >>,
         buttons |-> VacButtons(vacs) \o prev \o next \o <<TokMain>>]

\* the session build_vacancy_list opens for its count and page queries
ListQueries == <<SessionOpen, Query("vacancies"), Query("vacancies"), SessionClose>>

\* (text, markup) of build_vacancy_detail for a row
build_vacancy_detail(vac) ==
    [text |-> <<vac.title, vac.description, vac.city>>,
     buttons |-> <<TokRespondVac(vac.id), TokMain>>]

----------------------------------------------------------------------------
(* Applicant handlers *)

\* cmd_start without the blacklist check
cmd_start_NoGate(uid) ==
    ReadOnly(<<SessionOpen, Query("blacklist"), SessionClose,
               Call("message.answer", "main_menu", << <<"welcome">> >>, build_main_menu, TRUE)>>,
             "none")

cmd_start(uid) ==
    LET db == <<SessionOpen, Query("blacklist"), SessionClose>>
    IN  IF Blacklisted(uid)
        THEN ReadOnly(db, "none")
        ELSE ReadOnly(db \o <<Call("message.answer", "main_menu", << <<"welcome">> >>,
                                    build_main_menu, TRUE)>>, "none")

\* `not tog or not tog.enabled`
Unavailable(key) ==
    \/ <<key>> \notin DOMAIN toggles
    \/ ~toggles[<<key>>]

evt_handler(data) ==
    LET key == IF data = TokEvt("career") THEN "career" ELSE "practice"
        m == build_event_menu(key, <<"description", " ", key>>)
    IN  IF Unavailable(key)
        THEN ReadOnly(<<SessionOpen, Query("toggles"),
                        Call("callback.answer", "alert_unavailable", <<>>, <<>>, TRUE),
                        SessionClose>>, "none")
        ELSE ReadOnly(<<SessionOpen, Query("toggles"), SessionClose,
                        Call("edit_text", "event", m.text, m.buttons, TRUE)>>, "none")

list_vacancies ==
    LET m == build_vacancy_list(0)
    IN  ReadOnly(ListQueries \o <<Call("edit_text", "vacancy_list", m.text, m.buttons, TRUE)>>,
                 "none")

vac_page_handler(data) ==
    LET parts == Split(data, "_")
        last == parts[Len(parts)]
    IN  IF ~IsInt(last)
        THEN ReadOnly(<<>>, "ValueError")
        ELSE LET m == build_vacancy_list(IntOf(last))
             IN  ReadOnly(ListQueries
                            \o <<Call("edit_text", "vacancy_list", m.text, m.buttons, TRUE)>>,
                          "none")

vac_detail(data) ==
    LET parts == Split(data, "_")
        db == <<SessionOpen, Query("vacancies"), SessionClose>>
    IN  IF ~IsInt(parts[2])
        THEN ReadOnly(<<>>, "ValueError")
        ELSE IF ~HasVacancy(IntOf(parts[2]))
        THEN ReadOnly(db, "AttributeError")
        ELSE LET m == build_vacancy_detail(GetVacancy(IntOf(parts[2])))
             IN  ReadOnly(db \o <<Call("edit_text", "vacancy_detail", m.text, m.buttons, TRUE)>>,
                          "none")

to_main ==
    ReadOnly(<<Call("edit_text", "main_menu", << <<"main menu">> >>, build_main_menu, TRUE)>>,
             "none")

noop_handler ==
    ReadOnly(<<Call("callback.answer", "alert_noop", <<>>, <<>>, TRUE)>>, "none")

----------------------------------------------------------------------------
(* Notification channels *)

\* send_sms: skipped without credentials; an exception of the client is caught
\* and logged
send_sms(body, fail) ==
    IF config.sms
    THEN Call("send_sms", "notification", <<body>>, <<>>, "sms" \notin fail)
    ELSE Call("send_sms", "skipped", <<body>>, <<>>, TRUE)

\* send_email: skipped with a warning without SMTP settings; an exception of
\* smtplib is caught and logged
send_email(body, fail) ==
    IF config.smtp
    THEN Call("send_email", "notification", <<body>>, <<>>, "email" \notin fail)
    ELSE Call("send_email", "skipped", <<body>>, <<>>, TRUE)

\* the notifications with a second SMS attempt after a failed one
NotifyAndConfirm_RetrySms(title, fail) ==
    IF "chat" \in fail
    THEN [trace |-> <<Call("bot.send_message", "notification", <<title>>, <<>>, FALSE)>>,
          raised |-> "TransportError"]
    ELSE [trace |-> <<Call("bot.send_message", "notification", <<title>>, <<>>, TRUE),
                      send_sms(title, fail)>>
                    \o (IF config.sms /\ "sms" \in fail
                        THEN <<send_sms(title, fail)>> ELSE <<>>)
                    \o <<send_email(title, fail),
                         Call("edit_text", "confirmation", << <<"thanks">> >>, <<TokMain>>,
                              TRUE)>>,
          raised |-> "none"]

\* lines 196-202 of respond_handler: the three notifications in order, then the
\* confirmation screen; the channels in `fail` fail when called
NotifyAndConfirm(title, fail) ==
    IF "chat" \in fail
    THEN [trace |-> <<Call("bot.send_message", "notification", <<title>>, <<>>, FALSE)>>,
          raised |-> "TransportError"]
    ELSE [trace |-> <<Call("bot.send_message", "notification", <<title>>, <<>>, TRUE),
                      send_sms(title, fail),
                      send_email(title, fail),
                      Call("edit_text", "confirmation", << <<"thanks">> >>, <<TokMain>>, TRUE)>>,
          raised |-> "none"]

respond_handler(uid, data, fail) ==
    LET ack == Call("callback.answer", "ack", <<>>, <<>>, TRUE)
        parts == Split(data, "_")
        mode == parts[2]
        key == parts[3]
        gate == <<ack, SessionOpen, Query("blacklist")>>
    IN  IF Len(parts) < 3
        THEN ReadOnly(<<ack>>, "IndexError")
        ELSE IF Blacklisted(uid)
        THEN ReadOnly(gate \o <<SessionClose>>, "none")
        ELSE IF mode = <<"evt">>
        THEN LET n == NotifyAndConfirm(key, fail)
             IN  ReadOnly(gate \o <<SessionClose>> \o n.trace, n.raised)
        ELSE IF ~IsInt(key)
        THEN ReadOnly(gate \o <<SessionClose>>, "ValueError")
        ELSE IF ~HasVacancy(IntOf(key))
        THEN ReadOnly(gate \o <<Query("vacancies"), SessionClose>>, "AttributeError")
        ELSE LET n == NotifyAndConfirm(GetVacancy(IntOf(key)).title, fail)
             IN  ReadOnly(gate \o <<Query("vacancies"), SessionClose>> \o n.trace, n.raised)

----------------------------------------------------------------------------
(* Admin handlers.  replyFail: the success reply raises, which the bare     *)
(* `except:` catches like any other exception of the try block.            *)

\* the reply after a commit, followed by the usage reply when it raised
RepliesAfterCommit(okScreen, okText, usage, replyFail) ==
    IF replyFail
    THEN <<Call("message.reply", okScreen, okText, <<>>, FALSE), usage>>
    ELSE <<Call("message.reply", okScreen, okText, <<>>, TRUE)>>

\* cmd_addvac taking the first three fields of three or more
cmd_addvac_AtLeastThree(text, replyFail) ==
    LET usage == Call("message.reply", "usage_addvac", <<>>, <<>>, TRUE)
        parts == SplitOnce(text, " ")
        fields == Split(parts[2], "|")
    IN  IF Len(parts) # 2
        THEN ReadOnly(<<usage>>, "none")
        ELSE IF Len(fields) < 3
        THEN ReadOnly(<<usage>>, "none")
        ELSE Result(<<SessionOpen, Commit("vacancies"), SessionClose>>
                      \o RepliesAfterCommit("addvac_ok", <<>>, usage, replyFail),
                    "none",
                    AddVacancy(Strip(fields[1]), Strip(fields[2]), Strip(fields[3])),
                    toggles, blacklist)

cmd_addvac(text, replyFail) ==
    LET usage == Call("message.reply", "usage_addvac", <<>>, <<>>, TRUE)
        parts == SplitOnce(text, " ")
        fields == Split(parts[2], "|")
    IN  IF Len(parts) # 2
        THEN ReadOnly(<<usage>>, "none")
        ELSE IF Len(fields) # 3
        THEN ReadOnly(<<usage>>, "none")
        ELSE Result(<<SessionOpen, Commit("vacancies"), SessionClose>>
                      \o RepliesAfterCommit("addvac_ok", <<>>, usage, replyFail),
                    "none",
                    AddVacancy(Strip(fields[1]), Strip(fields[2]), Strip(fields[3])),
                    toggles, blacklist)

\* the read of tog.enabled in the reply's f-string, after db.commit() expired
\* the row's attributes and the `with` block closed the session
DetachedRead == Call("attribute_load", "toggles", <<>>, <<>>, FALSE)

\* The reply f"{name} = {tog.enabled}" is built after the session is closed:
\* the attribute load raises DetachedInstanceError, which the bare `except:`
\* answers with the usage reply.
cmd_toggle(text) ==
    LET usage == Call("message.reply", "usage_toggle", <<>>, <<>>, TRUE)
        parts == SplitOnce(text, " ")
        name == parts[2]
        stored == IF name \in DOMAIN toggles THEN toggles[name] ELSE FALSE
    IN  IF Len(parts) # 2
        THEN ReadOnly(<<usage>>, "none")
        ELSE Result(<<SessionOpen, Query("toggles"), Commit("toggles"), SessionClose,
                      DetachedRead, usage>>,
                    "none", vacancies, SetToggle(name, ~stored), blacklist)

\* cmd_blacklist on a table that accepts a second row with the same user_id
cmd_blacklist_NoKeyCheck(text, replyFail) ==
    LET usage == Call("message.reply", "usage_blacklist", <<>>, <<>>, TRUE)
        parts == SplitOnce(text, " ")
        uid == IntOf(parts[2])
    IN  IF Len(parts) # 2
        THEN ReadOnly(<<usage>>, "none")
        ELSE IF ~IsInt(parts[2])
        THEN ReadOnly(<<usage>>, "none")
        ELSE Result(<<SessionOpen, Commit("blacklist"), SessionClose>>
                      \o RepliesAfterCommit("blacklist_ok", << <<Str(uid)>> >>, usage, replyFail),
                    "none", vacancies, toggles, blacklist \cup {uid})

cmd_blacklist(text, replyFail) ==
    LET usage == Call("message.reply", "usage_blacklist", <<>>, <<>>, TRUE)
        parts == SplitOnce(text, " ")
        uid == IntOf(parts[2])
    IN  IF Len(parts) # 2
        THEN ReadOnly(<<usage>>, "none")
        ELSE IF ~IsInt(parts[2])
        THEN ReadOnly(<<usage>>, "none")
        ELSE IF uid \in blacklist
        THEN ReadOnly(<<SessionOpen, CommitRefused("blacklist"), SessionClose, usage>>, "none")
        ELSE Result(<<SessionOpen, Commit("blacklist"), SessionClose>>
                      \o RepliesAfterCommit("blacklist_ok", << <<Str(uid)>> >>, usage, replyFail),
                    "none", vacancies, toggles, blacklist \cup {uid})

----------------------------------------------------------------------------
(* Dispatcher: the first registered handler whose filter accepts the update *)

CallbackHandlers ==
    {"evt_handler", "list_vacancies", "vac_page_handler", "vac_detail",
     "respond_handler", "to_main", "noop_handler"}

\* the filters with vac_detail registered on the bare prefix "vac_"
Accepts_DetailAnyVac(h, data) ==
    CASE h = "evt_handler" -> data \in {TokEvt("career"), TokEvt("practice")}
      [] h = "list_vacancies" -> data = TokAllVacancies
      [] h = "vac_page_handler" -> StartsWith(data, <<"vac", "_", "page", "_">>)
      [] h = "vac_detail" -> StartsWith(data, <<"vac", "_">>)
      [] h = "respond_handler" -> StartsWith(data, <<"respond", "_">>)
      [] h = "to_main" -> data = TokMain
      [] h = "noop_handler" -> data = TokNoop
      [] OTHER -> FALSE

\* the filter handler h is registered with accepts the token
Accepts(h, data) ==
    CASE h = "evt_handler" -> data \in {TokEvt("career"), TokEvt("practice")}
      [] h = "list_vacancies" -> data = TokAllVacancies
      [] h = "vac_page_handler" -> StartsWith(data, <<"vac", "_", "page", "_">>)
      [] h = "vac_detail" ->
             StartsWith(data, <<"vac", "_">>) /\ ~StartsWith(data, <<"vac", "_", "page", "_">>)
      [] h = "respond_handler" -> StartsWith(data, <<"respond", "_">>)
      [] h = "to_main" -> data = TokMain
      [] h = "noop_handler" -> data = TokNoop
      [] OTHER -> FALSE

CallbackRoute(data) ==
    IF data \in {TokEvt("career"), TokEvt("practice")} THEN "evt_handler"
    ELSE IF data = TokAllVacancies THEN "list_vacancies"
    ELSE IF StartsWith(data, <<"vac", "_", "page", "_">>) THEN "vac_page_handler"
    ELSE IF StartsWith(data, <<"vac", "_">>) /\ ~StartsWith(data, <<"vac", "_", "page", "_">>)
    THEN "vac_detail"
    ELSE IF StartsWith(data, <<"respond", "_">>) THEN "respond_handler"
    ELSE IF data = TokMain THEN "to_main"
    ELSE IF data = TokNoop THEN "noop_handler"
    ELSE "none"

\* the admin filters without the `m.from_user.id == ADMIN_ID` test
MessageRoute_AnyCaller(uid, text) ==
    IF Head(text) = "/start" THEN "cmd_start"
    ELSE IF StartsWith(text, <<"/addvac">>) THEN "cmd_addvac"
    ELSE IF StartsWith(text, <<"/toggle">>) THEN "cmd_toggle"
    ELSE IF StartsWith(text, <<"/blacklist">>) THEN "cmd_blacklist"
    ELSE "none"

MessageRoute(uid, text) ==
    IF Head(text) = "/start" THEN "cmd_start"
    ELSE IF uid = ADMIN_ID /\ StartsWith(text, <<"/addvac">>) THEN "cmd_addvac"
    ELSE IF uid = ADMIN_ID /\ StartsWith(text, <<"/toggle">>) THEN "cmd_toggle"
    ELSE IF uid = ADMIN_ID /\ StartsWith(text, <<"/blacklist">>) THEN "cmd_blacklist"
    ELSE "none"

----------------------------------------------------------------------------
(* Updates the transport delivers *)

CallbackTokens ==
    {TokEvt("career"), TokEvt("practice"), TokAllVacancies, TokMain, TokNoop,
     TokVacPage(0), TokVacPage(1), <<"vac", "_", "page", "_", "x">>,
     <<"vac", "_", "abc">>,
     TokRespondEvt("career"), <<"respond", "_", "evt">>, <<"respond", "_", "vac", "_", "x">>,
     <<"unknown">>}
      \cup {TokVac(i) : i \in {1, MaxVac + 1}}
      \cup {TokRespondVac(i) : i \in {1, MaxVac + 1}}

AddvacTexts ==
    {<<"/addvac", " ", "A", " ", "a", "|", " ", "B", "|", "C", " ">>,
     <<"/addvac">>,
     <<"/addvac", " ", "A", "|", "B">>,
     <<"/addvac", " ", "A", "|", "B", "|", "C", "|", "D">>}

ToggleTexts ==
    {<<"/toggle", " ", "career">>, <<"/toggle", " ", "practice">>, <<"/toggle">>}

BlacklistTexts ==
    {<<"/blacklist", " ", "1">>, <<"/blacklist">>, <<"/blacklist", " ", "abc">>}

MessageTexts == {<<"/start">>} \cup AddvacTexts \cup ToggleTexts \cup BlacklistTexts

----------------------------------------------------------------------------
(* State machine *)

Tables == [vacancies |-> vacancies, toggles |-> toggles, blacklist |-> blacklist]

\* the handler tasks the dispatcher can have in flight at once
Tasks == {"t1", "t2"}

\* the task inserted no row
NoInsert == [table |-> "none", key |-> <<>>]

\* no update assigned to the task
Idle == [pc |-> "idle", text |-> <<>>, todo |-> <<>>, inserted |-> NoInsert, raised |-> "none"]

\* no catalog page rendered yet
NoCatalog == [page |-> 0, buttons |-> <<>>]

Init ==
    /\ vacancies = <<>>
    /\ toggles = [n \in {} |-> TRUE]
    /\ blacklist = {}
    /\ config \in [sms : BOOLEAN, smtp : BOOLEAN]
    /\ ev = [kind |-> "none", uid |-> ADMIN_ID, data |-> <<>>, fail |-> {}]
    /\ handler = "none"
    /\ trace = <<>>
    /\ raised = "none"
    /\ pre = [vacancies |-> <<>>, toggles |-> [n \in {} |-> TRUE], blacklist |-> {}]
    /\ catalog = NoCatalog
    /\ tasks = [t \in Tasks |-> Idle]

\* handler h ran on the update to completion; r is what h did
Record(kind, uid, data, fail, h, r) ==
    /\ vacancies' = r.vacancies
    /\ toggles' = r.toggles
    /\ blacklist' = r.blacklist
    /\ ev' = [kind |-> kind, uid |-> uid, data |-> data, fail |-> fail]
    /\ handler' = h
    /\ trace' = r.trace
    /\ raised' = r.raised
    /\ pre' = Tables
    /\ UNCHANGED config

\* the dispatcher runs handler h on the update; r is what h did
Handle(kind, uid, data, fail, h, r) ==
    /\ Record(kind, uid, data, fail, h, r)
    /\ UNCHANGED <<catalog, tasks>>

Called(tr, call) == \E i \in 1 .. Len(tr) : tr[i].call = call

CmdStart ==
    \E uid \in Users, text \in MessageTexts :
        /\ MessageRoute(uid, text) = "cmd_start"
        /\ Handle("message", uid, text, {}, "cmd_start", cmd_start(uid))

EvtHandler ==
    \E uid \in Users, data \in CallbackTokens :
        /\ CallbackRoute(data) = "evt_handler"
        /\ Handle("callback", uid, data, {}, "evt_handler", evt_handler(data))

ListVacancies ==
    \E uid \in Users, data \in CallbackTokens :
        /\ CallbackRoute(data) = "list_vacancies"
        /\ Handle("callback", uid, data, {}, "list_vacancies", list_vacancies)

VacPageHandler ==
    \E uid \in Users, data \in CallbackTokens :
        /\ CallbackRoute(data) = "vac_page_handler"
        /\ Handle("callback", uid, data, {}, "vac_page_handler", vac_page_handler(data))

VacDetail ==
    \E uid \in Users, data \in CallbackTokens :
        /\ CallbackRoute(data) = "vac_detail"
        /\ Handle("callback", uid, data, {}, "vac_detail", vac_detail(data))

\* the channels that can fail when a handler with this trace calls them: the
\* ones it reaches with their credentials set
CanFail(tr) ==
    {c \in Channels :
        \/ c = "chat" /\ Called(tr, "bot.send_message")
        \/ c = "sms" /\ Called(tr, "send_sms") /\ config.sms
        \/ c = "email" /\ Called(tr, "send_email") /\ config.smtp}

\* the failing channels are an input only where the handler reaches them
RespondHandler ==
    \E uid \in Users, data \in CallbackTokens, fail \in SUBSET Channels :
        /\ CallbackRoute(data) = "respond_handler"
        /\ fail \subseteq CanFail(respond_handler(uid, data, fail).trace)
        /\ Handle("callback", uid, data, fail, "respond_handler",
                  respond_handler(uid, data, fail))

ToMain ==
    \E uid \in Users, data \in CallbackTokens :
        /\ CallbackRoute(data) = "to_main"
        /\ Handle("callback", uid, data, {}, "to_main", to_main)

NoopHandler ==
    \E uid \in Users, data \in CallbackTokens :
        /\ CallbackRoute(data) = "noop_handler"
        /\ Handle("callback", uid, data, {}, "noop_handler", noop_handler)

\* a failing success reply is an input only when the handler reaches that reply
CmdAddvac ==
    \E uid \in Users, text \in MessageTexts, replyFail \in BOOLEAN :
        /\ MessageRoute(uid, text) = "cmd_addvac"
        /\ Len(cmd_addvac(text, replyFail).vacancies) <= MaxVac
        /\ replyFail => Called(cmd_addvac(text, replyFail).trace, "commit")
        /\ Handle("message", uid, text, IF replyFail THEN {"reply"} ELSE {},
                  "cmd_addvac", cmd_addvac(text, replyFail))

CmdToggle ==
    \E uid \in Users, text \in MessageTexts :
        /\ MessageRoute(uid, text) = "cmd_toggle"
        /\ Handle("message", uid, text, {}, "cmd_toggle", cmd_toggle(text))

CmdBlacklist ==
    \E uid \in Users, text \in MessageTexts, replyFail \in BOOLEAN :
        /\ MessageRoute(uid, text) = "cmd_blacklist"
        /\ replyFail => Called(cmd_blacklist(text, replyFail).trace, "message.reply")
                        /\ cmd_blacklist(text, replyFail).blacklist # blacklist
        /\ Handle("message", uid, text, IF replyFail THEN {"reply"} ELSE {},
                  "cmd_blacklist", cmd_blacklist(text, replyFail))

\* no filter accepts the update: no handler runs
UnhandledMessage ==
    \E uid \in Users, text \in MessageTexts :
        /\ MessageRoute(uid, text) = "none"
        /\ Handle("message", uid, text, {}, "none", ReadOnly(<<>>, "none"))

UnhandledCallback ==
    \E uid \in Users, data \in CallbackTokens :
        /\ CallbackRoute(data) = "none"
        /\ Handle("callback", uid, data, {}, "none", ReadOnly(<<>>, "none"))

Next ==
    \/ CmdStart
    \/ EvtHandler
    \/ ListVacancies
    \/ VacPageHandler
    \/ VacDetail
    \/ RespondHandler
    \/ ToMain
    \/ NoopHandler
    \/ CmdAddvac
    \/ CmdToggle
    \/ CmdBlacklist
    \/ UnhandledMessage
    \/ UnhandledCallback

Spec == Init /\ [][Next]_vars

----------------------------------------------------------------------------
(* Vocabulary of the properties: what the last step did *)

\* the handler made a call of this kind carrying this screen
Shown(call, screen) ==
    \E i \in 1 .. Len(trace) : trace[i].call = call /\ trace[i].screen = screen

ChannelCall == [chat |-> "bot.send_message", sms |-> "send_sms", email |-> "send_email"]

\* the handler called channel c
Attempted(c) == Called(trace, ChannelCall[c])

NoChannelAttempted == \A c \in Channels : ~Attempted(c)

\* the handler sent nothing to the chat and to the sinks
NoOutput ==
    \A i \in 1 .. Len(trace) : trace[i].call \notin TransportCalls \cup SinkCalls

\* the step left the three tables as they were
NoWrite == Tables = pre

\* a row with this id was in the vacancies table before the step
HadVacancy(vid) == \E i \in 1 .. Len(pre.vacancies) : pre.vacancies[i].id = vid

\* the '_'-separated fields of the callback token of the last step
Parts == Split(ev.data, "_")

\* the argument of the admin command of the last step: <<command>> alone when
\* the text has no blank
Args == SplitOnce(ev.data, " ")

\* the last step was a response submission the handler accepts: the caller was
\* not blacklisted and the key resolves (an event key, or the id of a vacancy)
AcceptedResponse ==
    /\ handler = "respond_handler"
    /\ Len(Parts) >= 3
    /\ ev.uid \notin pre.blacklist
    /\ \/ Parts[2] = <<"evt">>
       \/ IsInt(Parts[3]) /\ HadVacancy(IntOf(Parts[3]))

----------------------------------------------------------------------------
(* C1 *)

\* C1: for an accepted response submission, whichever of the three channels
\* fails, all three channels are attempted, no exception leaves
\* respond_handler and the applicant gets the confirmation screen.
C1_FanOutIsolation ==
    AcceptedResponse =>
        /\ \A c \in Channels : Attempted(c)
        /\ raised = "none"
        /\ Shown("edit_text", "confirmation")

\* The part of C1 the code keeps: the same with the chat message delivered,
\* whatever the SMS and email sinks do.
C1_SinkFailuresIsolated ==
    AcceptedResponse /\ "chat" \notin ev.fail =>
        /\ \A c \in Channels : Attempted(c)
        /\ raised = "none"
        /\ Shown("edit_text", "confirmation")

----------------------------------------------------------------------------
(* C2 *)

\* the section key of the evt_* token of the last step
EvtKey == IF ev.data = TokEvt("career") THEN "career" ELSE "practice"

\* C2: pressing evt_career / evt_practice shows the "temporarily unavailable"
\* alert exactly when the section has a Toggle row with enabled = false; with
\* no row, or an enabled row, it renders the event screen with the
\* respond_evt_<key> button.
C2_AbsentToggleCountsEnabled ==
    handler = "evt_handler" =>
        LET disabledRow == <<EvtKey>> \in DOMAIN pre.toggles /\ ~pre.toggles[<<EvtKey>>]
        IN  /\ Shown("callback.answer", "alert_unavailable") <=> disabledRow
            /\ ~disabledRow =>
                 \E i \in 1 .. Len(trace) :
                     /\ trace[i].call = "edit_text"
                     /\ trace[i].screen = "event"
                     /\ \E b \in 1 .. Len(trace[i].buttons) :
                            trace[i].buttons[b] = TokRespondEvt(EvtKey)

----------------------------------------------------------------------------
(* C3 *)

\* the last step was a cmd_toggle that committed
ToggleCommitted == handler = "cmd_toggle" /\ toggles # pre.toggles

\* the last step was the first toggle of this name: it had no row before
FirstToggle(name) ==
    /\ ToggleCommitted
    /\ Args[2] = name
    /\ name \notin DOMAIN pre.toggles

\* C3: the first `toggle <name>` of a name without a row stores enabled = false,
\* and an evt_career press right after the first `toggle career` gets the
\* "temporarily unavailable" alert and not the event screen.
C3_FirstToggleDisables ==
    /\ [](\A name \in DOMAIN toggles : FirstToggle(name) => toggles[name] = FALSE)
    /\ [][(/\ FirstToggle(<<"career">>)
           /\ handler' = "evt_handler"
           /\ ev'.data = TokEvt("career"))
          => (/\ \E i \in 1 .. Len(trace') :
                     /\ trace'[i].call = "callback.answer"
                     /\ trace'[i].screen = "alert_unavailable"
              /\ \A i \in 1 .. Len(trace') : trace'[i].call # "edit_text")]_vars

----------------------------------------------------------------------------
(* C4 *)

\* the enabled value of a name, an absent row counting as the default enabled
EnabledOrDefault(ts, name) == IF name \in DOMAIN ts THEN ts[name] ELSE TRUE

\* C4: two consecutive `toggle <name>` commands return the enabled value of the
\* name to what it was before the first, from every starting state (no row,
\* enabled row, disabled row), a missing row counting as enabled.
C4_ToggleInvolution ==
    [][(/\ ToggleCommitted
        /\ handler' = "cmd_toggle"
        /\ ev'.data = ev.data
        /\ toggles' # toggles)
       => EnabledOrDefault(toggles', Args[2]) = EnabledOrDefault(pre.toggles, Args[2])]_vars

----------------------------------------------------------------------------
(* C5 *)

\* the last step was a well-formed `blacklist <id>` of an id already listed
RepeatedBlacklist ==
    /\ handler = "cmd_blacklist"
    /\ Len(Args) = 2
    /\ IsInt(Args[2])
    /\ IntOf(Args[2]) \in pre.blacklist

\* C5: `blacklist <id>` of an id already in the blacklist is a no-op: the id
\* stays listed, no insert is refused for a duplicate key, nothing is raised and
\* the admin gets the success reply, not the usage reply.
C5_BlacklistAddIdempotent ==
    RepeatedBlacklist =>
        /\ blacklist = pre.blacklist
        /\ IntOf(Args[2]) \in blacklist
        /\ \A i \in 1 .. Len(trace) : trace[i].call = "commit" => trace[i].ok
        /\ raised = "none"
        /\ Shown("message.reply", "blacklist_ok")
        /\ ~Shown("message.reply", "usage_blacklist")

----------------------------------------------------------------------------
(* C6 *)

\* C6: a `start` from a caller in the blacklist produces no output, a `start`
\* from any other caller gets the main menu, and no step takes an id out of the
\* blacklist: once `blacklist <id>` has committed, every later `start` of <id>
\* is silent.
C6_BlacklistedStartSilent ==
    /\ [](handler = "cmd_start" =>
             /\ raised = "none"
             /\ IF ev.uid \in blacklist
                THEN NoOutput
                ELSE Shown("message.answer", "main_menu"))
    /\ [][blacklist \subseteq blacklist']_vars

\* a blacklisted applicant sent `start`
C6_Witness == handler = "cmd_start" /\ ev.uid \in blacklist /\ NoOutput

----------------------------------------------------------------------------
(* C7 *)

\* C7: when the caller is in the blacklist at respond_handler's blacklist read,
\* the handler attempts none of the three channels; and whenever it calls a
\* channel, its blacklist query comes earlier in the same invocation.
C7_BlacklistGatesFanOut ==
    handler = "respond_handler" =>
        /\ ev.uid \in pre.blacklist => NoChannelAttempted
        /\ \A i \in 1 .. Len(trace) :
               trace[i].call \in {ChannelCall[c] : c \in Channels} =>
                   \E j \in 1 .. i - 1 : trace[j] = Query("blacklist")

\* a blacklisted caller submitted a response with a resolvable key and the
\* handler read the blacklist
C7_Witness ==
    /\ handler = "respond_handler"
    /\ ev.uid \in pre.blacklist
    /\ Len(Parts) >= 3
    /\ Parts[2] = <<"evt">> \/ (IsInt(Parts[3]) /\ HadVacancy(IntOf(Parts[3])))
    /\ Called(trace, "query")
    /\ NoChannelAttempted

----------------------------------------------------------------------------
(* C8 *)

\* the last step was vac_<id> for a numeric id with no row
AbsentDetail ==
    /\ handler = "vac_detail"
    /\ IsInt(Parts[2])
    /\ ~HadVacancy(IntOf(Parts[2]))

\* the last step was respond_vac_<id>, from a caller not blacklisted, for a
\* numeric id with no row
AbsentRespond ==
    /\ handler = "respond_handler"
    /\ Len(Parts) >= 3
    /\ Parts[2] = <<"vac">>
    /\ IsInt(Parts[3])
    /\ ~HadVacancy(IntOf(Parts[3]))

\* C8: a vacancy id without a row raises nothing: vac_<id> renders a not-found
\* screen and respond_vac_<id> returns normally.
C8_AbsentVacancyNoFault ==
    /\ AbsentDetail => raised = "none" /\ Shown("edit_text", "not_found")
    /\ AbsentRespond => raised = "none"

----------------------------------------------------------------------------
(* C9 *)

\* the token of the last step is malformed for its handler: a page or id that
\* is no number, or too few fields
MalformedToken ==
    \/ handler = "vac_page_handler" /\ ~IsInt(Parts[Len(Parts)])
    \/ handler = "vac_detail" /\ ~IsInt(Parts[2])
    \/ handler = "respond_handler" /\ Len(Parts) < 3
    \/ handler = "respond_handler" /\ Len(Parts) >= 3 /\ Parts[2] # <<"evt">>
         /\ ~IsInt(Parts[3])

\* C9: a malformed token raises nothing; the handler renders a usage or error
\* screen, writes nothing and calls no channel.
C9_MalformedTokenHandled ==
    MalformedToken =>
        /\ raised = "none"
        /\ \E i \in 1 .. Len(trace) :
               /\ trace[i].call \in {"edit_text", "callback.answer"}
               /\ trace[i].screen \in {"usage", "error"}
        /\ NoWrite
        /\ NoChannelAttempted

----------------------------------------------------------------------------
(* C10 *)

\* the usage reply of the admin handler of the last step
UsageScreen ==
    IF handler = "cmd_addvac" THEN "usage_addvac"
    ELSE IF handler = "cmd_toggle" THEN "usage_toggle"
    ELSE "usage_blacklist"

\* the admin command of the last step is malformed: addvac without exactly
\* three '|'-separated fields, toggle or blacklist without an argument,
\* blacklist with an id that is no number
MalformedAdmin ==
    \/ handler = "cmd_addvac" /\ (Len(Args) # 2 \/ Len(Split(Args[2], "|")) # 3)
    \/ handler = "cmd_toggle" /\ Len(Args) # 2
    \/ handler = "cmd_blacklist" /\ (Len(Args) # 2 \/ ~IsInt(Args[2]))

\* C10: a malformed admin command leaves the three tables unchanged, raises
\* nothing, and the handler's only call is the usage reply.
C10_MalformedAdminNoWrite ==
    MalformedAdmin =>
        /\ NoWrite
        /\ raised = "none"
        /\ trace = <<Call("message.reply", UsageScreen, <<>>, <<>>, TRUE)>>

\* an addvac with four fields, sent when the tables already hold rows
C10_Witness ==
    /\ MalformedAdmin
    /\ handler = "cmd_addvac"
    /\ Len(Args) = 2
    /\ Len(Split(Args[2], "|")) = 4
    /\ vacancies # <<>>
    /\ blacklist # {}
    /\ Shown("message.reply", "usage_addvac")

----------------------------------------------------------------------------
(* C11 *)

\* the last update was an addvac, toggle or blacklist message
AdminCommandText ==
    /\ ev.kind = "message"
    /\ \/ StartsWith(ev.data, <<"/addvac">>)
       \/ StartsWith(ev.data, <<"/toggle">>)
       \/ StartsWith(ev.data, <<"/blacklist">>)

\* C11: an addvac, toggle or blacklist message from a caller other than the
\* administrator runs no handler, changes no row and gets no reply at all; every
\* step that changes a table handles a message of the administrator.
C11_AdminOnly ==
    /\ AdminCommandText /\ ev.uid # ADMIN_ID =>
           /\ handler = "none"
           /\ NoWrite
           /\ trace = <<>>
           /\ raised = "none"
    /\ ~NoWrite => ev.uid = ADMIN_ID /\ AdminCommandText

\* an applicant sent a well-formed addvac
C11_Witness ==
    /\ AdminCommandText
    /\ ev.uid # ADMIN_ID
    /\ Len(Args) = 2
    /\ Len(Split(Args[2], "|")) = 3
    /\ trace = <<>>

----------------------------------------------------------------------------
(* Catalog specification: the table already holds 0 .. MaxRows vacancies    *)
(* (added by earlier addvac commands) and callers open the catalog and ask  *)
(* for any page 0 .. MaxPage.                                               *)

\* the table after n addvac commands on an empty table
Preloaded(n) ==
    [i \in 1 .. n |-> [id |-> i, title |-> <<"T">>, description |-> <<"D">>, city |-> <<"C">>]]

PageInit ==
    /\ \E n \in 0 .. MaxRows : vacancies = Preloaded(n)
    /\ toggles = [n \in {} |-> TRUE]
    /\ blacklist = {}
    /\ config \in [sms : BOOLEAN, smtp : BOOLEAN]
    /\ ev = [kind |-> "none", uid |-> ADMIN_ID, data |-> <<>>, fail |-> {}]
    /\ handler = "none"
    /\ trace = <<>>
    /\ raised = "none"
    /\ pre = [vacancies |-> vacancies, toggles |-> [n \in {} |-> TRUE], blacklist |-> {}]
    /\ catalog = NoCatalog
    /\ tasks = [t \in Tasks |-> Idle]

\* a caller presses vac_page_<p>
PageJump ==
    \E uid \in Users, p \in 0 .. MaxPage :
        /\ CallbackRoute(TokVacPage(p)) = "vac_page_handler"
        /\ Handle("callback", uid, TokVacPage(p), {}, "vac_page_handler",
                  vac_page_handler(TokVacPage(p)))

PageNext ==
    \/ ListVacancies
    \/ PageJump

PageSpec == PageInit /\ [][PageNext]_vars

----------------------------------------------------------------------------
(* C12 *)

\* the last step rendered a catalog page
RenderedList == handler \in {"list_vacancies", "vac_page_handler"} /\ raised = "none"

\* the page the last step asked for
AskedPage == IF handler = "list_vacancies" THEN 0 ELSE IntOf(Parts[Len(Parts)])

\* the buttons of the catalog page the last step rendered
ListButtons == trace[Len(trace)].buttons

\* the number of rows at offsets p*5 .. p*5+4 of a table of `total` rows
RowsOnPage(p, total) ==
    IF total - p * 5 <= 0 THEN 0
    ELSE IF total - p * 5 >= 5 THEN 5
    ELSE total - p * 5

\* C12: for every page p >= 0 and every number of vacancies, the rendered page
\* lists exactly the vacancies at offsets p*5 .. p*5+4 that exist, then the
\* "previous" button vac_page_<p-1> iff p > 0, then the "next" button
\* vac_page_<p+1> iff (p+1)*5 < total, then the main-menu button.
C12_Pagination ==
    RenderedList /\ AskedPage >= 0 =>
        LET p == AskedPage
            total == Len(pre.vacancies)
            rows == [k \in 1 .. RowsOnPage(p, total) |-> TokVac(pre.vacancies[p * 5 + k].id)]
            prev == IF p > 0 THEN <<TokVacPage(p - 1)>> ELSE <<>>
            next == IF (p + 1) * 5 < total THEN <<TokVacPage(p + 1)>> ELSE <<>>
        IN  /\ trace[Len(trace)].call = "edit_text"
            /\ ListButtons = rows \o prev \o next \o <<TokMain>>

\* a full middle page: five rows, "previous" and "next" both offered
C12_Witness ==
    /\ RenderedList
    /\ AskedPage = 1
    /\ Len(ListButtons) = 8
    /\ ListButtons[6] = TokVacPage(0)
    /\ ListButtons[7] = TokVacPage(2)

----------------------------------------------------------------------------
(* C13 *)

\* C13: the token of every callback is accepted by at most one registered
\* filter, and by the filter of the handler that ran; a token with prefix
\* vac_page_ runs the page handler, any other token with prefix vac_ runs the
\* detail handler.
C13_RoutingUnambiguous ==
    ev.kind = "callback" =>
        /\ {h \in CallbackHandlers : Accepts(h, ev.data)} \subseteq {handler}
        /\ handler # "none" => Accepts(handler, ev.data)
        /\ StartsWith(ev.data, <<"vac", "_", "page", "_">>) => handler = "vac_page_handler"
        /\ StartsWith(ev.data, <<"vac", "_">>)
             /\ ~StartsWith(ev.data, <<"vac", "_", "page", "_">>) => handler = "vac_detail"

\* vac_page_1 was pressed and the page handler rendered the page
C13_Witness ==
    /\ ev.kind = "callback"
    /\ ev.data = TokVacPage(1)
    /\ handler = "vac_page_handler"
    /\ Shown("edit_text", "vacancy_list")

----------------------------------------------------------------------------
(* C14 *)

\* the last step was an addvac with exactly three '|'-separated fields
WellFormedAddvac ==
    /\ handler = "cmd_addvac"
    /\ Len(Args) = 2
    /\ Len(Split(Args[2], "|")) = 3

\* the three fields of that command, blanks around them removed
AddvacFields ==
    LET f == Split(Args[2], "|")
    IN  <<Strip(f[1]), Strip(f[2]), Strip(f[3])>>

\* the row the last step added
NewVacancy == vacancies[Len(vacancies)]

\* C14: a well-formed addvac adds exactly one vacancy, with the command's
\* title, description and city and an id no existing vacancy has; a vac_<id>
\* press for that id right after it renders exactly that title, description
\* and city; no step changes or removes an existing vacancy.
C14_AddvacCreatesOne ==
    /\ [](WellFormedAddvac =>
             /\ Len(vacancies) = Len(pre.vacancies) + 1
             /\ SubSeq(vacancies, 1, Len(pre.vacancies)) = pre.vacancies
             /\ ~HadVacancy(NewVacancy.id)
             /\ <<NewVacancy.title, NewVacancy.description, NewVacancy.city>> = AddvacFields)
    /\ [][(/\ WellFormedAddvac
           /\ handler' = "vac_detail"
           /\ ev'.data = TokVac(NewVacancy.id))
          => (/\ raised' = "none"
              /\ trace'[Len(trace')].call = "edit_text"
              /\ trace'[Len(trace')].screen = "vacancy_detail"
              /\ trace'[Len(trace')].text = AddvacFields)]_vars
    /\ [][/\ Len(vacancies) <= Len(vacancies')
          /\ SubSeq(vacancies', 1, Len(vacancies)) = vacancies]_vars

\* a second vacancy was added to a table that held one
C14_Witness ==
    /\ WellFormedAddvac
    /\ Len(pre.vacancies) = 1
    /\ Len(vacancies) = 2
    /\ NewVacancy.id = 2
    /\ NewVacancy.title = <<"A", " ", "a">>

----------------------------------------------------------------------------
(* Field specification: the administrator sends addvac commands with three  *)
(* fields, some of them empty or blank, and callers look at the result.     *)

AddvacFieldTexts ==
    {<<"/addvac", " ", "A", "|", "B", "|", "C">>,
     <<"/addvac", " ", "A", "|", " ", "|", "C">>,
     <<"/addvac", " ", "|", "B", "|", " ", " ">>}

CmdAddvacFields ==
    \E text \in AddvacFieldTexts, replyFail \in BOOLEAN :
        /\ MessageRoute(ADMIN_ID, text) = "cmd_addvac"
        /\ Len(cmd_addvac(text, replyFail).vacancies) <= MaxVac
        /\ Handle("message", ADMIN_ID, text, IF replyFail THEN {"reply"} ELSE {},
                  "cmd_addvac", cmd_addvac(text, replyFail))

FieldNext ==
    \/ CmdAddvacFields
    \/ ListVacancies
    \/ VacDetail

FieldSpec == Init /\ [][FieldNext]_vars

----------------------------------------------------------------------------
(* C15 *)

\* C15: in every reachable state every stored vacancy has a non-empty title, a
\* non-empty description and a non-empty city, whatever addvac commands were
\* sent, those with empty or blank fields included.
C15_FieldsNonEmpty ==
    \A i \in 1 .. Len(vacancies) :
        /\ vacancies[i].title # <<>>
        /\ vacancies[i].description # <<>>
        /\ vacancies[i].city # <<>>

----------------------------------------------------------------------------
(* C16 *)

\* how many times the handler of the last step called channel c
Attempts(c) == Cardinality({i \in 1 .. Len(trace) : trace[i].call = ChannelCall[c]})

\* C16: a handler calls each of the three channels at most once per update,
\* whether the call fails or not; an accepted response submission calls the
\* admin chat channel exactly once; a handler other than respond_handler (and
\* an update no handler takes) calls no channel.
C16_OneAttemptPerChannel ==
    /\ \A c \in Channels : Attempts(c) <= 1
    /\ AcceptedResponse => Attempts("chat") = 1
    /\ handler # "respond_handler" => NoChannelAttempted

\* an accepted submission whose SMS failed: all three channels called once
C16_Witness ==
    /\ AcceptedResponse
    /\ "sms" \in ev.fail
    /\ \A c \in Channels : Attempts(c) = 1
    /\ \E i \in 1 .. Len(trace) : trace[i].call = "send_sms" /\ ~trace[i].ok

----------------------------------------------------------------------------
(* C17 *)

\* how many of the first n calls of the last step are `call`
CountBefore(call, n) == Cardinality({j \in 1 .. n : trace[j].call = call})

\* the session of the handler is open when it makes its i-th call
SessionHeldAt(i) ==
    CountBefore("session_open", i - 1) > CountBefore("session_close", i - 1)

\* C17: every chat-transport call and every SMS or email sink call of a
\* handler is made while the handler holds no open data-store session: each
\* session opened before the call was closed before it.
C17_NoCallInsideSession ==
    \A i \in 1 .. Len(trace) :
        trace[i].call \in TransportCalls \cup SinkCalls => ~SessionHeldAt(i)

----------------------------------------------------------------------------
(* C19 *)

AdminHandlers == {"cmd_addvac", "cmd_toggle", "cmd_blacklist"}

\* the success reply of each admin handler
SuccessScreen ==
    [cmd_addvac |-> "addvac_ok", cmd_toggle |-> "toggle_ok",
     cmd_blacklist |-> "blacklist_ok"]

\* C19: an admin command that committed a write sends its success reply and
\* does not send its usage reply, also when sending the success reply fails;
\* the usage reply is sent only by an invocation that left the tables as they
\* were.
C19_ReplyReportsOutcome ==
    handler \in AdminHandlers =>
        /\ Shown("message.reply", UsageScreen) => NoWrite
        /\ ~NoWrite => Shown("message.reply", SuccessScreen[handler])

----------------------------------------------------------------------------
(* Concurrency specification: the dispatcher handles each admin message in  *)
(* a task of its own on one event loop.  A task runs without interruption   *)
(* from one `await` to the next: the parse and the whole `with` block of an *)
(* admin handler (no `await` inside) are one step, each awaited reply is    *)
(* one more.  Tasks are scheduled in any order.                             *)

ConcTexts ==
    {<<"/toggle", " ", "career">>,
     <<"/blacklist", " ", "1">>,
     <<"/addvac", " ", "A", "|", "B", "|", "C">>}

\* what the admin handler registered for the text does
AdminRun(text, replyFail) ==
    CASE MessageRoute(ADMIN_ID, text) = "cmd_addvac" -> cmd_addvac(text, replyFail)
      [] MessageRoute(ADMIN_ID, text) = "cmd_toggle" -> cmd_toggle(text)
      [] MessageRoute(ADMIN_ID, text) = "cmd_blacklist" -> cmd_blacklist(text, replyFail)

\* the awaited transport calls of a handler run, in order
Awaits(tr) == SelectSeq(tr, LAMBDA c : c.call \in TransportCalls)

\* how the db.commit() of a handler run ended
CommitOf(r) ==
    IF \E i \in 1 .. Len(r.trace) : r.trace[i].call = "commit" /\ r.trace[i].ok
    THEN "committed"
    ELSE IF Called(r.trace, "commit") THEN "refused"
    ELSE "none"

\* the table and primary key of the row a handler run inserted: db.add(...)
\* followed by a db.commit() that succeeded
Inserted(text, r) ==
    LET h == MessageRoute(ADMIN_ID, text)
        arg == SplitOnce(text, " ")[2]
    IN  IF CommitOf(r) # "committed" THEN NoInsert
        ELSE IF h = "cmd_addvac"
        THEN [table |-> "vacancies", key |-> <<Str(r.vacancies[Len(r.vacancies)].id)>>]
        ELSE IF h = "cmd_blacklist"
        THEN [table |-> "blacklist", key |-> <<Str(IntOf(arg))>>]
        ELSE IF arg \notin DOMAIN toggles
        THEN [table |-> "toggles", key |-> arg]
        ELSE NoInsert

\* the dispatcher starts a task for an admin message
Arrive ==
    \E t \in Tasks, text \in ConcTexts :
        /\ tasks[t].pc \in {"idle", "done"}
        /\ MessageRoute(ADMIN_ID, text) # "none"
        /\ tasks' = [tasks EXCEPT ![t] = [Idle EXCEPT !.pc = "ready", !.text = text]]
        /\ UNCHANGED <<vacancies, toggles, blacklist, config, ev, handler, trace, raised,
                       pre, catalog>>

\* a task runs from its start to its first `await message.reply(...)`
RunToAwait ==
    \E t \in Tasks, replyFail \in BOOLEAN :
        LET r == AdminRun(tasks[t].text, replyFail)
        IN  /\ tasks[t].pc = "ready"
            /\ Len(r.vacancies) <= MaxVac
            /\ replyFail <=> \E i \in 1 .. Len(r.trace) :
                                 r.trace[i].call = "message.reply" /\ ~r.trace[i].ok
            /\ vacancies' = r.vacancies
            /\ toggles' = r.toggles
            /\ blacklist' = r.blacklist
            /\ tasks' = [tasks EXCEPT ![t] =
                            [pc |-> "awaiting", text |-> tasks[t].text,
                             todo |-> Awaits(r.trace), inserted |-> Inserted(tasks[t].text, r),
                             raised |-> r.raised]]
            /\ UNCHANGED <<config, ev, handler, trace, raised, pre, catalog>>

\* an awaited reply of a task completes (or raises into the `except:` branch)
Resume ==
    \E t \in Tasks :
        /\ tasks[t].pc = "awaiting"
        /\ tasks' = [tasks EXCEPT ![t].todo = Tail(@),
                                  ![t].pc = IF Len(tasks[t].todo) = 1 THEN "done"
                                            ELSE "awaiting"]
        /\ UNCHANGED <<vacancies, toggles, blacklist, config, ev, handler, trace, raised,
                       pre, catalog>>

ConcNext ==
    \/ Arrive
    \/ RunToAwait
    \/ Resume

ConcSpec == Init /\ [][ConcNext]_vars

----------------------------------------------------------------------------
(* C18 *)

\* the tables differ from the ones before the step in exactly one row
OneRowWritten ==
    \/ /\ Len(vacancies') = Len(vacancies) + 1
       /\ SubSeq(vacancies', 1, Len(vacancies)) = vacancies
       /\ toggles' = toggles /\ blacklist' = blacklist
    \/ /\ \E n \in DOMAIN toggles' :
              /\ DOMAIN toggles' = DOMAIN toggles \cup {n}
              /\ \A m \in DOMAIN toggles : m # n => toggles'[m] = toggles[m]
              /\ n \in DOMAIN toggles => toggles'[n] # toggles[n]
       /\ vacancies' = vacancies /\ blacklist' = blacklist
    \/ /\ \E u \in blacklist' : u \notin blacklist /\ blacklist' = blacklist \cup {u}
       /\ vacancies' = vacancies /\ toggles' = toggles

\* task t ran its `with` block in this step
RanBlock(t) == tasks[t].pc = "ready" /\ tasks'[t].pc = "awaiting"

\* the usage reply is the last reply a task has left to send
EndsWithUsage(t) ==
    /\ tasks[t].todo # <<>>
    /\ tasks[t].todo[Len(tasks[t].todo)].screen
           \in {"usage_addvac", "usage_toggle", "usage_blacklist"}

\* C18: with two admin handlers in flight, scheduled in any order: the ids of
\* the vacancies are pairwise distinct; two tasks never both insert a row with
\* the same key into the same table, and a row a task inserted is in its
\* table; every step either leaves the three tables as they were or is the
\* `with` block of one task committing exactly one row; and no task ends with
\* an exception.
C18_ConcurrentAdminSafe ==
    /\ [](/\ \A i, j \in 1 .. Len(vacancies) : i # j => vacancies[i].id # vacancies[j].id
          /\ \A t, u \in Tasks :
                 t # u /\ tasks[t].inserted # NoInsert
                     => tasks[t].inserted # tasks[u].inserted
          /\ \A t \in Tasks :
                 /\ tasks[t].inserted.table = "vacancies"
                        => \E i \in 1 .. Len(vacancies) :
                               <<Str(vacancies[i].id)>> = tasks[t].inserted.key
                 /\ tasks[t].inserted.table = "toggles"
                        => tasks[t].inserted.key \in DOMAIN toggles
                 /\ tasks[t].inserted.table = "blacklist"
                        => \E u \in blacklist : <<Str(u)>> = tasks[t].inserted.key
                 /\ tasks[t].raised = "none")
    /\ [][\/ Tables' = Tables
          \/ /\ OneRowWritten
             /\ \E t \in Tasks : RanBlock(t) /\ \A u \in Tasks \ {t} : tasks'[u] = tasks[u]]_vars

\* two handlers blacklisting the same id, both suspended at their reply: one
\* inserted the row, the commit of the other was refused and it is about to
\* send the usage reply
C18_Witness ==
    \E t, u \in Tasks :
        /\ t # u
        /\ tasks[t].pc = "awaiting" /\ tasks[u].pc = "awaiting"
        /\ tasks[t].text = tasks[u].text
        /\ tasks[t].inserted = [table |-> "blacklist", key |-> <<"1">>]
        /\ tasks[u].inserted = NoInsert
        /\ EndsWithUsage(u)

----------------------------------------------------------------------------
(* Navigation specification: the administrator adds vacancies (up to        *)
(* MaxRows) while an applicant opens the catalog and presses only the       *)
(* "previous"/"next" buttons of the page on the screen.                     *)

\* the buttons of the catalog page a handler run rendered
Rendered(r) == r.trace[Len(r.trace)].buttons

\* the applicant opens the catalog from the main menu
NavOpen ==
    \E uid \in Users \ {ADMIN_ID} :
        /\ CallbackRoute(TokAllVacancies) = "list_vacancies"
        /\ Record("callback", uid, TokAllVacancies, {}, "list_vacancies", list_vacancies)
        /\ catalog' = [page |-> 0, buttons |-> Rendered(list_vacancies)]
        /\ UNCHANGED tasks

\* the applicant presses a vac_page_<p> button of the page on the screen
NavFollow ==
    \E uid \in Users \ {ADMIN_ID}, i \in 1 .. Len(catalog.buttons) :
        LET data == catalog.buttons[i]
            r == vac_page_handler(data)
        IN  /\ CallbackRoute(data) = "vac_page_handler"
            /\ r.raised = "none"
            /\ Record("callback", uid, data, {}, "vac_page_handler", r)
            /\ catalog' = [page |-> IntOf(Split(data, "_")[Len(Split(data, "_"))]),
                           buttons |-> Rendered(r)]
            /\ UNCHANGED tasks

\* the administrator adds a vacancy; the applicant's screen stays as it is
NavAddvac ==
    \E text \in AddvacTexts, replyFail \in BOOLEAN :
        /\ MessageRoute(ADMIN_ID, text) = "cmd_addvac"
        /\ Len(cmd_addvac(text, replyFail).vacancies) <= MaxRows
        /\ replyFail => Called(cmd_addvac(text, replyFail).trace, "commit")
        /\ Record("message", ADMIN_ID, text, IF replyFail THEN {"reply"} ELSE {},
                  "cmd_addvac", cmd_addvac(text, replyFail))
        /\ UNCHANGED <<catalog, tasks>>

NavNext ==
    \/ NavOpen
    \/ NavFollow
    \/ NavAddvac

NavSpec == Init /\ [][NavNext]_vars

----------------------------------------------------------------------------
(* C20 *)

\* the vacancy buttons among the buttons of a catalog page
VacancyRows(buttons) ==
    {i \in 1 .. Len(buttons) : CallbackRoute(buttons[i]) = "vac_detail"}

\* the step is the applicant pressing the "next" button of the page on the
\* screen
FollowedNext ==
    /\ handler' = "vac_page_handler"
    /\ ev'.data = TokVacPage(catalog.page + 1)

\* C20: opening the catalog and pressing only "previous"/"next" buttons the
\* catalog rendered, with addvac commands in between, every page rendered has
\* an index >= 0, and every page reached by a "next" button lists at least one
\* vacancy.
C20_NavigationInRange ==
    /\ [](/\ catalog.page >= 0
          /\ RenderedList => AskedPage >= 0)
    /\ [][FollowedNext => VacancyRows(catalog'.buttons) # {}]_vars

\* the third page, reached by pressing "next" twice, after the administrator
\* added more than ten vacancies
C20_Witness ==
    /\ handler = "vac_page_handler"
    /\ ev.data = TokVacPage(2)
    /\ catalog.page = 2
    /\ Len(pre.vacancies) > 2 * per_page
    /\ VacancyRows(catalog.buttons) # {}

====
